---- MODULE Spec2Model ----
(***************************************************************************)
(* Model of the durable event orchestration (functions/function_app.py)    *)
(* and of the historical replay worker that drives it.                     *)
(*                                                                         *)
(* Units: confidences, weights and capped fractions are in thousandths,    *)
(* scores in millionths (confidence * weight), interest rates in           *)
(* hundredths, event timestamps in seconds, the wall clock in              *)
(* microseconds.                                                           *)
(***************************************************************************)
EXTENDS Integers, Sequences, FiniteSets, TLC

\* ---------------------------------------------------------------- bounds
MaxInst == 2
MaxJobs == 1

\* ------------------------------------------------------ program constants
THRESHOLD == 700000
CONFIDENCE_FLOOR == 600
EVIDENCE_MIN_LEN == 4
GuardMinLen == 4
GuardFloor == 500
DefaultFloor == 600
DefaultRateWeight == 300
DefaultTenureWeight == 100
DefaultTextWeight == 400
SleepBase == 20000
DefaultAccelerate == 120
DefaultBatchSize == 1000

None == [none |-> TRUE]

Min(a, b) == IF a <= b THEN a ELSE b
Max(a, b) == IF a >= b THEN a ELSE b
Abs(a) == IF a < 0 THEN 0 - a ELSE a
Get(d, k, default) == IF k \in DOMAIN d THEN d[k] ELSE default

\* ------------------------------------------------------------ environment
\* The notes table read by the replay worker, in storage order (not by time).
NotesTable ==
  <<[customer_id |-> "C2", note_id |-> 2, ts |-> 10, text |-> "note 2"],
    [customer_id |-> "C1", note_id |-> 3, ts |-> 30, text |-> "note 3"],
    [customer_id |-> "C1", note_id |-> 1, ts |-> 0, text |-> "note 1"]>>

\* The ruleset loaded at cold start.
RULESET ==
  [weights |-> [rate_diff |-> 300, tenure |-> 100],
   confidence_floor |-> 600,
   text_rules |-> [high_fees |-> [weight |-> 500],
                   closing |-> [weight |-> 1000]]]
RULESET_VERSION == "v1"

Hit(rid, conf, evlen) == [rule_id |-> rid, confidence |-> conf, evidence_len |-> evlen]

\* What the language model call can produce: an exception or unparsable
\* JSON ("error"), JSON of the wrong shape ("malformed"), or rule hits.
LLMOutcomes ==
  {[kind |-> "error", rule_hits |-> <<>>],
   [kind |-> "malformed", rule_hits |-> <<>>],
   [kind |-> "ok", rule_hits |-> <<Hit("closing", 700, 12)>>],
   [kind |-> "ok", rule_hits |-> <<Hit("closing", 699, 12)>>]}

\* What the customers_snapshot query can produce.
SnapshotOutcomes ==
  {[kind |-> "error"],
   [kind |-> "norow"],
   [kind |-> "row", current_rate |-> 500, prev_rate |-> 380,
    term_months |-> 24, account_age_days |-> 60]}

\* How the INSERT of a lead card can go: the connection or the statement
\* fails (nothing stored), everything succeeds, or the row is committed and
\* the activity raises afterwards.
InsertOutcomes == {"error", "ok", "committed_then_raise"}

\* ------------------------------------------------- shared/aoai_text_matcher
\* match_text_rules: a failing call or unparsable JSON is caught and read as
\* "no hits"; JSON of the wrong shape raises after the try block; each hit
\* is kept when its rule is in the catalog, its confidence reaches the
\* floor and its stripped evidence is long enough.
allow_ids(ruleset) == DOMAIN Get(ruleset, "text_rules", <<>>)

\* match_text_rules without the check of the rule id against the catalog.
match_text_rules_any_id(llm, ruleset) ==
  IF llm.kind = "malformed"
  THEN [raised |-> TRUE, rule_hits |-> <<>>]
  ELSE LET raw == IF llm.kind = "error" THEN <<>> ELSE llm.rule_hits
       IN [raised |-> FALSE,
           rule_hits |-> SelectSeq(raw, LAMBDA h :
                            /\ h.confidence >= CONFIDENCE_FLOOR
                            /\ h.evidence_len >= EVIDENCE_MIN_LEN)]

match_text_rules(llm, ruleset) ==
  IF llm.kind = "malformed"
  THEN [raised |-> TRUE, rule_hits |-> <<>>]
  ELSE LET raw == IF llm.kind = "error" THEN <<>> ELSE llm.rule_hits
       IN [raised |-> FALSE,
           rule_hits |-> SelectSeq(raw, LAMBDA h :
                            /\ h.rule_id \in allow_ids(ruleset)
                            /\ h.confidence >= CONFIDENCE_FLOOR
                            /\ h.evidence_len >= EVIDENCE_MIN_LEN)]

\* ---------------------------------------------------------- shared/guardrails
substring_evidence_guard(h) == h.evidence_len >= GuardMinLen

enforce_confidence_floors(hits) ==
  SelectSeq(hits, LAMBDA h : h.confidence >= GuardFloor)

\* --------------------------------------------------------------- activities
\* activity_call_text_agent: matcher, then the two local guards.
activity_call_text_agent(event, llm) ==
  LET res == match_text_rules(llm, RULESET)
  IN IF res.raised
     THEN [raised |-> TRUE]
     ELSE [raised |-> FALSE,
           rule_hits |-> enforce_confidence_floors(
                           SelectSeq(res.rule_hits, substring_evidence_guard)),
           ruleset_version |-> RULESET_VERSION]

\* Variant of the feature fetch that raises when the customer has no
\* snapshot row.
activity_fetch_structured_strict(payload, snap) ==
  IF snap.kind \in {"error", "norow"}
  THEN [raised |-> TRUE]
  ELSE [raised |-> FALSE,
        features |-> [customer_id |-> payload.customer_id,
                      current_rate |-> snap.current_rate,
                      prev_rate |-> snap.prev_rate,
                      rate_diff |-> snap.current_rate - snap.prev_rate,
                      term_months |-> snap.term_months,
                      account_age_days |-> snap.account_age_days]]

\* activity_fetch_structured: a missing row reads as {}; a key that is None
\* in the code is a key absent from the record here.
activity_fetch_structured(payload, snap) ==
  IF snap.kind = "error"
  THEN [raised |-> TRUE]
  ELSE LET row == IF snap.kind = "norow" THEN [kind |-> "norow"] ELSE snap
           base == [customer_id |-> payload.customer_id]
           opt(d, k) == IF k \in DOMAIN row
                        THEN [x \in DOMAIN d \cup {k} |->
                                IF x = k THEN row[k] ELSE d[x]]
                        ELSE d
           withRow == opt(opt(opt(opt(base, "current_rate"), "prev_rate"),
                              "term_months"), "account_age_days")
           out == IF "current_rate" \in DOMAIN row /\ "prev_rate" \in DOMAIN row
                  THEN [x \in DOMAIN withRow \cup {"rate_diff"} |->
                          IF x = "rate_diff"
                          THEN row.current_rate - row.prev_rate
                          ELSE withRow[x]]
                  ELSE withRow
       IN [raised |-> FALSE, features |-> out]

\* ------------------------------------------------------------- shared/rules
\* The loop of score_event over the hits: a hit below the floor is skipped,
\* the others add confidence * weight and are listed.
\* Variant of the loop that also skips a hit whose confidence equals the
\* floor.
RECURSIVE score_hits_strict(_, _, _)
score_hits_strict(ruleset, hits, acc) ==
  IF hits = <<>> THEN acc
  ELSE LET h == Head(hits)
           floor == Get(ruleset, "confidence_floor", DefaultFloor)
           rules == Get(ruleset, "text_rules", <<>>)
           w == Get(Get(rules, h.rule_id, <<>>), "weight", DefaultTextWeight)
       IN IF h.confidence <= floor
          THEN score_hits_strict(ruleset, Tail(hits), acc)
          ELSE score_hits_strict(ruleset, Tail(hits),
                 [text_score |-> acc.text_score + h.confidence * w,
                  text_hits_json |-> Append(acc.text_hits_json, h),
                  explanations |->
                    IF h.evidence_len > 0
                    THEN Append(acc.explanations, "evidence")
                    ELSE acc.explanations])

RECURSIVE score_hits(_, _, _)
score_hits(ruleset, hits, acc) ==
  IF hits = <<>> THEN acc
  ELSE LET h == Head(hits)
           floor == Get(ruleset, "confidence_floor", DefaultFloor)
           rules == Get(ruleset, "text_rules", <<>>)
           w == Get(Get(rules, h.rule_id, <<>>), "weight", DefaultTextWeight)
       IN IF h.confidence < floor
          THEN score_hits(ruleset, Tail(hits), acc)
          ELSE score_hits(ruleset, Tail(hits),
                 [text_score |-> acc.text_score + h.confidence * w,
                  text_hits_json |-> Append(acc.text_hits_json, h),
                  explanations |->
                    IF h.evidence_len > 0
                    THEN Append(acc.explanations, "evidence")
                    ELSE acc.explanations])

\* Variant of score_event without the final clamp to [0, 1].
score_event_unclamped(ruleset, text_result, features) ==
  LET weights == Get(ruleset, "weights", <<>>)
      hits == Get(text_result, "rule_hits", <<>>)
      hasRate == "rate_diff" \in DOMAIN features
      hasAge == "account_age_days" \in DOMAIN features
      rate == IF hasRate
              THEN Min((Abs(features.rate_diff) * 1000) \div 150, 1000)
                     * Get(weights, "rate_diff", DefaultRateWeight)
              ELSE 0
      tenure == IF hasAge
                THEN Min((features.account_age_days * 1000) \div 180, 1000)
                       * Get(weights, "tenure", DefaultTenureWeight)
                ELSE 0
      expl0 == (IF hasRate THEN <<"rate">> ELSE <<>>)
                 \o (IF hasAge THEN <<"tenure">> ELSE <<>>)
      t == score_hits(ruleset, hits,
             [text_score |-> 0, text_hits_json |-> <<>>, explanations |-> expl0])
  IN [score |-> t.text_score + rate + tenure,
      rule_hits_json |-> t.text_hits_json,
      explanation_text |-> t.explanations,
      agent_version |-> "v1"]

\* Variant of score_event that caps the rate change itself at 1 instead of
\* the rate change divided by 1.5.
score_event_whole_rate(ruleset, text_result, features) ==
  LET weights == Get(ruleset, "weights", <<>>)
      hits == Get(text_result, "rule_hits", <<>>)
      hasRate == "rate_diff" \in DOMAIN features
      hasAge == "account_age_days" \in DOMAIN features
      rate == IF hasRate
              THEN Min((Abs(features.rate_diff) * 1000) \div 100, 1000)
                     * Get(weights, "rate_diff", DefaultRateWeight)
              ELSE 0
      tenure == IF hasAge
                THEN Min((features.account_age_days * 1000) \div 180, 1000)
                       * Get(weights, "tenure", DefaultTenureWeight)
                ELSE 0
      expl0 == (IF hasRate THEN <<"rate">> ELSE <<>>)
                 \o (IF hasAge THEN <<"tenure">> ELSE <<>>)
      t == score_hits(ruleset, hits,
             [text_score |-> 0, text_hits_json |-> <<>>, explanations |-> expl0])
  IN [score |-> Max(0, Min(t.text_score + rate + tenure, 1000000)),
      rule_hits_json |-> t.text_hits_json,
      explanation_text |-> t.explanations,
      agent_version |-> "v1"]

score_event(ruleset, text_result, features) ==
  LET weights == Get(ruleset, "weights", <<>>)
      hits == Get(text_result, "rule_hits", <<>>)
      hasRate == "rate_diff" \in DOMAIN features
      hasAge == "account_age_days" \in DOMAIN features
      rate == IF hasRate
              THEN Min((Abs(features.rate_diff) * 1000) \div 150, 1000)
                     * Get(weights, "rate_diff", DefaultRateWeight)
              ELSE 0
      tenure == IF hasAge
                THEN Min((features.account_age_days * 1000) \div 180, 1000)
                       * Get(weights, "tenure", DefaultTenureWeight)
                ELSE 0
      structured_score == rate + tenure
      expl0 == (IF hasRate THEN <<"rate">> ELSE <<>>)
                 \o (IF hasAge THEN <<"tenure">> ELSE <<>>)
      t == score_hits(ruleset, hits,
             [text_score |-> 0, text_hits_json |-> <<>>, explanations |-> expl0])
  IN [score |-> Max(0, Min(t.text_score + structured_score, 1000000)),
      rule_hits_json |-> t.text_hits_json,
      explanation_text |-> t.explanations,
      agent_version |-> "v1"]

\* Variant of activity_evaluate_rules that emits only above the threshold.
evaluate_rules_strict(payload) ==
  LET d == score_event(RULESET, payload.text_result, payload.features)
  IN [should_emit |-> d.score > THRESHOLD,
      score |-> d.score,
      rule_hits_json |-> d.rule_hits_json,
      structured_snapshot_json |-> payload.features,
      explanation_text |-> d.explanation_text,
      agent_version |-> d.agent_version,
      ruleset_version |-> RULESET_VERSION,
      note_id |-> payload.event.note_id,
      customer_id |-> payload.features.customer_id]

\* The body of activity_evaluate_rules over the module globals it reads: the
\* score against the threshold, and the card payload.
evaluate_rules(ruleset, version, threshold, payload) ==
  LET d == score_event(ruleset, payload.text_result, payload.features)
  IN [should_emit |-> d.score >= threshold,
      score |-> d.score,
      rule_hits_json |-> d.rule_hits_json,
      structured_snapshot_json |-> payload.features,
      explanation_text |-> d.explanation_text,
      agent_version |-> d.agent_version,
      ruleset_version |-> version,
      note_id |-> payload.event.note_id,
      customer_id |-> payload.features.customer_id]

\* activity_evaluate_rules in the app loaded with RULESET and THRESHOLD.
activity_evaluate_rules(payload) ==
  evaluate_rules(RULESET, RULESET_VERSION, THRESHOLD, payload)

\* activity_write_lead_card: the row inserted into lead_cards (inst is the
\* inserting instance, kept for the properties only).
lead_card_row(payload, inst) ==
  [customer_id |-> payload.customer_id,
   note_id |-> payload.note_id,
   score |-> payload.score,
   rule_hits_json |-> payload.rule_hits_json,
   ruleset_version |-> payload.ruleset_version,
   instance |-> inst]

\* ------------------------------------------------------------- orchestrator
\* One replay of orchestrator_event_replay over the outputs recorded for the
\* instance: each call_activity whose result is recorded returns it, the
\* first one without a recorded result is scheduled (or raises the failure
\* recorded for it), and past the last one the function returns.
Schedule(name, input) == [kind |-> "schedule", activity |-> name, input |-> input]

\* Variant of the fetch input that names one customer for every event.
FetchInput_fixed(event) == [customer_id |-> "C1", event_ts |-> event.ts]

FetchInput(event) == [customer_id |-> event.customer_id, event_ts |-> event.ts]

EvalInput(inst) ==
  [text_result |-> inst.text_res, features |-> inst.features,
   event |-> [note_id |-> inst.event.note_id, ts |-> inst.event.ts]]

\* Variant of the return value that always reports a lead.
Return_emitted(inst) ==
  [kind |-> "return", result |-> [processed |-> TRUE, lead_emitted |-> TRUE]]

Return(inst) ==
  [kind |-> "return",
   result |-> [processed |-> TRUE, lead_emitted |-> inst.eval_result.should_emit]]

\* Variant of the orchestrator that returns without step 4.
orchestrator_without_write(inst) ==
  LET pending(name, input) ==
        IF inst.error # None THEN [kind |-> "raise"] ELSE Schedule(name, input)
  IN IF inst.text_res = None
     THEN pending("activity_call_text_agent", inst.event)
     ELSE IF inst.features = None
     THEN pending("activity_fetch_structured", FetchInput(inst.event))
     ELSE IF inst.eval_result = None
     THEN pending("activity_evaluate_rules", EvalInput(inst))
     ELSE Return(inst)

\* Variant of the orchestrator that schedules a failed activity again.
orchestrator_with_retry(inst) ==
  IF inst.text_res = None
  THEN Schedule("activity_call_text_agent", inst.event)
  ELSE IF inst.features = None
  THEN Schedule("activity_fetch_structured", FetchInput(inst.event))
  ELSE IF inst.eval_result = None
  THEN Schedule("activity_evaluate_rules", EvalInput(inst))
  ELSE IF inst.eval_result.should_emit /\ inst.card = None
  THEN Schedule("activity_write_lead_card", inst.eval_result)
  ELSE Return(inst)

\* Variant of the orchestrator that does not take the text result from the
\* record while the features are missing: it runs step 1 again.
orchestrator_rerun_text(inst) ==
  LET pending(name, input) ==
        IF inst.error # None THEN [kind |-> "raise"] ELSE Schedule(name, input)
  IN IF inst.text_res = None \/ (inst.features = None /\ inst.calls.text < 2)
     THEN pending("activity_call_text_agent", inst.event)
     ELSE IF inst.features = None
     THEN pending("activity_fetch_structured", FetchInput(inst.event))
     ELSE IF inst.eval_result = None
     THEN pending("activity_evaluate_rules", EvalInput(inst))
     ELSE IF inst.eval_result.should_emit /\ inst.card = None
     THEN pending("activity_write_lead_card", inst.eval_result)
     ELSE Return(inst)

\* Variant of the orchestrator that fetches the features before step 1.
orchestrator_fetch_first(inst) ==
  LET pending(name, input) ==
        IF inst.error # None THEN [kind |-> "raise"] ELSE Schedule(name, input)
  IN IF inst.features = None
     THEN pending("activity_fetch_structured", FetchInput(inst.event))
     ELSE IF inst.text_res = None
     THEN pending("activity_call_text_agent", inst.event)
     ELSE IF inst.eval_result = None
     THEN pending("activity_evaluate_rules", EvalInput(inst))
     ELSE IF inst.eval_result.should_emit /\ inst.card = None
     THEN pending("activity_write_lead_card", inst.eval_result)
     ELSE Return(inst)

orchestrator_event_replay(inst) ==
  LET event == inst.event
      pending(name, input) ==
        IF inst.error # None THEN [kind |-> "raise"] ELSE Schedule(name, input)
  IN IF inst.text_res = None
     THEN pending("activity_call_text_agent", event)
     ELSE IF ~({"customer_id", "ts"} \subseteq DOMAIN event)
     THEN [kind |-> "raise"]
     ELSE IF inst.features = None
     THEN pending("activity_fetch_structured", FetchInput(event))
     ELSE IF ~("note_id" \in DOMAIN event)
     THEN [kind |-> "raise"]
     ELSE IF inst.eval_result = None
     THEN pending("activity_evaluate_rules", EvalInput(inst))
     ELSE IF inst.eval_result.should_emit /\ inst.card = None
     THEN pending("activity_write_lead_card", inst.eval_result)
     ELSE Return(inst)

\* Variant of Episode that also runs the orchestrator of an instance that
\* has already ended.
Episode_of_ended(inst) ==
  LET r == orchestrator_event_replay(inst)
  IN IF r.kind = "schedule" THEN inst
     ELSE IF r.kind = "return"
     THEN [inst EXCEPT !.status = "Completed", !.result = r.result,
                       !.steps = Append(@, "COMPLETED")]
     ELSE [inst EXCEPT !.status = "Failed", !.steps = Append(@, "FAILED")]

\* One episode of the orchestrator on the recorded instance: the replay
\* either waits for an activity, or returns (the instance completes with the
\* returned value), or lets an exception out (the instance fails).
Episode(inst) ==
  LET r == orchestrator_event_replay(inst)
  IN IF inst.status # "Running" \/ r.kind = "schedule" THEN inst
     ELSE IF r.kind = "return"
     THEN [inst EXCEPT !.status = "Completed", !.result = r.result,
                       !.steps = Append(@, "COMPLETED")]
     ELSE [inst EXCEPT !.status = "Failed", !.steps = Append(@, "FAILED")]

\* ------------------------------------------------------------ replay worker
\* The request bodies a caller may post to replay/start.
ReplayBodies ==
  {[from_ts |-> 0, to_ts |-> 40, accelerate |-> 10, batch_size |-> 2],
   [from_ts |-> 10, to_ts |-> 40, accelerate |-> 1, batch_size |-> 1],
   [from_ts |-> 0, to_ts |-> 30],
   [from_ts |-> 10, to_ts |-> 10, accelerate |-> 10, batch_size |-> 2]}

\* The same bodies as requests whose JSON parses and whose message reaches
\* the queue.
ReplayRequests ==
  {[json |-> TRUE, body |-> b, enqueue |-> "ok"] : b \in ReplayBodies}

\* Further bodies that are valid JSON, most of them not a well-formed job. A
\* string value that does not parse (as an ISO timestamp, a float or an int)
\* is named in "unparsable"; a key that is missing is missing from the
\* record.
OddBodies ==
  {[from_ts |-> 30, to_ts |-> 10, accelerate |-> 0, batch_size |-> 2],
   [from_ts |-> 0, to_ts |-> 40, accelerate |-> 0, batch_size |-> 2],
   [from_ts |-> 10, to_ts |-> 10, accelerate |-> 0, batch_size |-> 1],
   [from_ts |-> 30, to_ts |-> 40, accelerate |-> 0 - 1, batch_size |-> 2],
   [from_ts |-> 0, to_ts |-> 40, accelerate |-> 0 - 2, batch_size |-> 1],
   [from_ts |-> 0, to_ts |-> 30, batch_size |-> 1],
   [from_ts |-> 30, to_ts |-> 40, accelerate |-> 2],
   [from_ts |-> 0, to_ts |-> 10, accelerate |-> 20, batch_size |-> 1000],
   [from_ts |-> 0, to_ts |-> 40, unparsable |-> {"from_ts"}],
   [to_ts |-> 40, accelerate |-> 10, batch_size |-> 2],
   [from_ts |-> 0, accelerate |-> 10, batch_size |-> 2],
   [from_ts |-> 0, to_ts |-> 40, unparsable |-> {"to_ts"}],
   [from_ts |-> 0, to_ts |-> 40, accelerate |-> 10, batch_size |-> 2,
    unparsable |-> {"accelerate"}],
   [from_ts |-> 0, to_ts |-> 40, accelerate |-> 10, batch_size |-> 2,
    unparsable |-> {"batch_size"}]}

\* Every request the endpoint may receive: a body that is not JSON, and the
\* JSON bodies with the queue reachable or not.
AllReplayRequests ==
  {[json |-> FALSE, body |-> [raw |-> "not json"], enqueue |-> "ok"]}
    \cup {[json |-> TRUE, body |-> b, enqueue |-> e] :
            b \in ReplayBodies \cup OddBodies, e \in {"ok", "error"}}

\* http_start_replay: get_json, then send_message; any exception of either
\* is answered with 500 and its text; nothing of the body is looked at.
http_start_replay(req) ==
  IF ~req.json
  THEN [status |-> 500, detail |-> "ValueError", enqueued |-> FALSE]
  ELSE IF req.enqueue = "error"
  THEN [status |-> 500, detail |-> "queue error", enqueued |-> FALSE]
  ELSE [status |-> 202, detail |-> "Replay scheduled", enqueued |-> TRUE]

\* Variant of the parsing that always takes the default batch size.
parse_job_default_batch(payload) ==
  LET bad == Get(payload, "unparsable", {})
      raise(e) == [raised |-> TRUE, error |-> e]
  IN IF "from_ts" \notin DOMAIN payload THEN raise("KeyError")
     ELSE IF "from_ts" \in bad THEN raise("ValueError")
     ELSE IF "to_ts" \notin DOMAIN payload THEN raise("KeyError")
     ELSE IF "to_ts" \in bad THEN raise("ValueError")
     ELSE IF "accelerate" \in DOMAIN payload /\ "accelerate" \in bad
     THEN raise("ValueError")
     ELSE IF "batch_size" \in DOMAIN payload /\ "batch_size" \in bad
     THEN raise("ValueError")
     ELSE [raised |-> FALSE,
           from_ts |-> payload.from_ts, to_ts |-> payload.to_ts,
           accelerate |-> Get(payload, "accelerate", DefaultAccelerate),
           batch_size |-> DefaultBatchSize]

\* The first lines of queue_replay_worker: payload["from_ts"] and
\* payload["to_ts"] must be there and parse, accelerate and batch_size are
\* optional and must convert.
parse_job(payload) ==
  LET bad == Get(payload, "unparsable", {})
      raise(e) == [raised |-> TRUE, error |-> e]
  IN IF "from_ts" \notin DOMAIN payload THEN raise("KeyError")
     ELSE IF "from_ts" \in bad THEN raise("ValueError")
     ELSE IF "to_ts" \notin DOMAIN payload THEN raise("KeyError")
     ELSE IF "to_ts" \in bad THEN raise("ValueError")
     ELSE IF "accelerate" \in DOMAIN payload /\ "accelerate" \in bad
     THEN raise("ValueError")
     ELSE IF "batch_size" \in DOMAIN payload /\ "batch_size" \in bad
     THEN raise("ValueError")
     ELSE [raised |-> FALSE,
           from_ts |-> payload.from_ts, to_ts |-> payload.to_ts,
           accelerate |-> Get(payload, "accelerate", DefaultAccelerate),
           batch_size |-> Get(payload, "batch_size", DefaultBatchSize)]

\* ORDER BY created_ts ASC: insertion of a row into a list sorted by ts.
RECURSIVE InsertByTs(_, _)
InsertByTs(row, sorted) ==
  IF sorted = <<>> THEN <<row>>
  ELSE IF row.ts < Head(sorted).ts THEN <<row>> \o sorted
  ELSE <<Head(sorted)>> \o InsertByTs(row, Tail(sorted))

RECURSIVE OrderByTs(_)
OrderByTs(rows) ==
  IF rows = <<>> THEN <<>> ELSE InsertByTs(Head(rows), OrderByTs(Tail(rows)))

\* Variant of the notes query without its ORDER BY.
notes_query_unordered(from_ts, to_ts) ==
  SelectSeq(NotesTable, LAMBDA r : r.ts >= from_ts /\ r.ts < to_ts)

\* Variant of the notes query whose window includes to_ts.
notes_query_inclusive(from_ts, to_ts) ==
  OrderByTs(SelectSeq(NotesTable, LAMBDA r : r.ts >= from_ts /\ r.ts <= to_ts))

\* The notes query of the worker: the window [from_ts, to_ts), by time.
notes_query(from_ts, to_ts) ==
  OrderByTs(SelectSeq(NotesTable, LAMBDA r : r.ts >= from_ts /\ r.ts < to_ts))

\* SqlClient.iter_query: the result in chunks of chunksize rows.
RECURSIVE iter_query(_, _)
iter_query(rows, chunksize) ==
  IF rows = <<>> THEN <<>>
  ELSE IF Len(rows) <= chunksize THEN <<rows>>
  ELSE <<SubSeq(rows, 1, chunksize)>>
         \o iter_query(SubSeq(rows, chunksize + 1, Len(rows)), chunksize)

\* The pause before each start: asyncio.sleep(0.02 / accelerate); the
\* division is only done for a factor that is not zero, and asyncio.sleep
\* returns at once for a delay that is not positive.
sleep_for(accelerate) == SleepBase \div accelerate

asyncio_sleep(delay) == Max(0, delay)

\* starter.start_new: a new instance, whose history begins with STARTED.
start_new(event) ==
  Episode([event |-> event, status |-> "Running", steps |-> <<"STARTED">>,
   text_res |-> None, features |-> None, eval_result |-> None,
   card |-> None, error |-> None, result |-> None, llm |-> "none",
   snap |-> "none",
   calls |-> [text |-> 0, fetch |-> 0, eval |-> 0, write |-> 0]])

\* ------------------------------------------- one activity on one instance
\* What the record of an instance becomes when the activity it waits for has
\* run: the call is counted, the output or the failure recorded, and the
\* orchestrator replayed over the record.
Called(inst, a) == [inst EXCEPT !.calls[a] = @ + 1]

Failed(inst, a, name, detail) ==
  [Called(inst, a) EXCEPT
     !.error = [step |-> a, activity |-> name, detail |-> detail]]

text_step(inst, input, llm) ==
  LET res == activity_call_text_agent(input, llm)
  IN Episode(
       IF res.raised
       THEN [Failed(inst, "text", "activity_call_text_agent", "malformed")
               EXCEPT !.llm = llm.kind]
       ELSE [Called(inst, "text") EXCEPT
               !.llm = llm.kind,
               !.text_res = [rule_hits |-> res.rule_hits,
                             ruleset_version |-> res.ruleset_version],
               !.steps = Append(@, "TEXT_MATCHED")])

fetch_step(inst, input, snap) ==
  LET res == activity_fetch_structured(input, snap)
  IN Episode(
       IF res.raised
       THEN [Failed(inst, "fetch", "activity_fetch_structured", "sql")
               EXCEPT !.snap = snap.kind]
       ELSE [Called(inst, "fetch") EXCEPT
               !.snap = snap.kind,
               !.features = res.features,
               !.steps = Append(@, "FEATURES_FETCHED")])

eval_step(inst, input) ==
  Episode([Called(inst, "eval") EXCEPT
             !.eval_result = activity_evaluate_rules(input),
             !.steps = Append(@, "EVALUATED")])

write_step(inst, how) ==
  Episode(
    IF how = "ok"
    THEN [Called(inst, "write") EXCEPT
            !.card = [ok |-> TRUE],
            !.steps = Append(@, "CARD_WRITTEN")]
    ELSE Failed(inst, "write", "activity_write_lead_card", how))

IdleRun ==
  [state |-> "idle", payload |-> <<>>, error |-> "none", cancelled |-> FALSE,
   from_ts |-> 0, to_ts |-> 0, accelerate |-> 1,
   batch_size |-> 1, todo |-> <<>>, batch |-> 0, starts |-> <<>>, began |-> 0]

\* -------------------------------------------------------------------- state
VARIABLES
  instances,   \* the instance store: instance id -> recorded instance
  lead_cards,  \* the rows of table lead_cards
  queue,       \* the replay queue: request bodies not yet taken
  submitted,   \* number of replay requests accepted so far
  run,         \* the replay worker's current run
  clock,       \* wall clock, microseconds
  http_log,    \* the answers of replay/start, with their requests
  INSTANCE_STATUS_URLS,  \* webapp: the instance ids it has a status URL for
  answer,      \* webapp: its last answer to a caller
  scoring,     \* one call of the scorer: its arguments and what it returned
  app,         \* the function app's process: environment and module globals
  matching     \* one call of the text activity: the model's answer, the output

webapp == <<INSTANCE_STATUS_URLS, answer>>

\* What the handlers of the running app never write.
apart == <<scoring, app, matching>>

vars ==
  <<instances, lead_cards, queue, submitted, run, clock, http_log, webapp,
    apart>>

Init ==
  /\ instances = <<>>
  /\ lead_cards = <<>>
  /\ queue = <<>>
  /\ submitted = 0
  /\ run = IdleRun
  /\ clock = 0
  /\ http_log = <<>>
  /\ INSTANCE_STATUS_URLS = {}
  /\ answer = None
  /\ scoring = None
  /\ app = None
  /\ matching = None

Ids == 1..Len(instances)

\* The activity the orchestrator of instance i is waiting for, if any.
Awaits(i, name) ==
  /\ instances[i].status = "Running"
  /\ orchestrator_event_replay(instances[i]).kind = "schedule"
  /\ orchestrator_event_replay(instances[i]).activity = name

\* Variant of Input that takes the event from one place shared by all the
\* instances, which holds the event of the instance started last.
Input_of_latest(i) ==
  orchestrator_event_replay(
    [instances[i] EXCEPT !.event = instances[Len(instances)].event]).input

Input(i) == orchestrator_event_replay(instances[i]).input

\* -------------------------------------------------------- replay submission
\* http_start_replay on one of the given requests: the body is put on the
\* queue as it is, and the answer goes back to the caller.
HttpStartReplay(requests) ==
  /\ submitted < MaxJobs
  /\ \E req \in requests :
       LET r == http_start_replay(req)
       IN /\ queue' = IF r.enqueued THEN Append(queue, req.body) ELSE queue
          /\ http_log' = Append(http_log,
               [status |-> r.status, detail |-> r.detail, json |-> req.json,
                body |-> req.body, enqueue |-> req.enqueue])
          /\ submitted' = submitted + 1
  /\ UNCHANGED <<instances, lead_cards, run, clock, webapp, apart>>

\* queue_replay_worker, up to its loop: the message is parsed, the window
\* queried in time order and cut into batches.
QueueReplayWorker ==
  /\ run.state \in {"idle", "done", "failed"}
  /\ queue # <<>>
  /\ LET payload == Head(queue)
         job == parse_job(payload)
     IN run' = IF job.raised
               THEN [IdleRun EXCEPT !.state = "failed", !.payload = payload,
                                    !.error = job.error, !.began = clock]
               ELSE [state |-> "running", payload |-> payload,
                     error |-> "none", cancelled |-> FALSE,
                     from_ts |-> job.from_ts, to_ts |-> job.to_ts,
                     accelerate |-> job.accelerate,
                     batch_size |-> job.batch_size,
                     todo |-> iter_query(notes_query(job.from_ts, job.to_ts),
                                         job.batch_size),
                     batch |-> 1, starts |-> <<>>, began |-> clock]
  /\ queue' = Tail(queue)
  /\ UNCHANGED <<instances, lead_cards, submitted, clock, http_log, webapp, apart>>

\* Variant of the loop's turn that waits until every instance started so
\* far has ended.
ReplayRow_waiting ==
  /\ run.state = "running"
  /\ run.todo # <<>>
  /\ Len(instances) < MaxInst
  /\ \A i \in Ids : instances[i].status # "Running"
  /\ LET row == Head(Head(run.todo))
         rest == Tail(Head(run.todo))
         at == clock + asyncio_sleep(sleep_for(run.accelerate))
     IN /\ clock' = at
        /\ instances' = Append(instances, start_new(row))
        /\ run' = [run EXCEPT
                     !.todo = IF rest = <<>> THEN Tail(run.todo)
                              ELSE <<rest>> \o Tail(run.todo),
                     !.batch = IF rest = <<>> THEN @ + 1 ELSE @,
                     !.starts = Append(@,
                       [note_id |-> row.note_id, ts |-> row.ts,
                        at |-> at, batch |-> run.batch,
                        instance |-> Len(instances) + 1])]
  /\ UNCHANGED <<lead_cards, queue, submitted, http_log, webapp, apart>>

\* One turn of the worker's loop: the pause, then start_new for the row. A
\* factor of zero raises ZeroDivisionError in the pause, which ends the
\* worker before the start.
ReplayRow ==
  /\ run.state = "running"
  /\ run.todo # <<>>
  /\ Len(instances) < MaxInst
  /\ IF run.accelerate = 0
     THEN /\ run' = [run EXCEPT !.state = "failed",
                                !.error = "ZeroDivisionError"]
          /\ UNCHANGED <<instances, clock>>
     ELSE LET row == Head(Head(run.todo))
              rest == Tail(Head(run.todo))
              at == clock + asyncio_sleep(sleep_for(run.accelerate))
          IN /\ clock' = at
             /\ instances' = Append(instances, start_new(row))
             /\ run' = [run EXCEPT
                          !.todo = IF rest = <<>> THEN Tail(run.todo)
                                   ELSE <<rest>> \o Tail(run.todo),
                          !.batch = IF rest = <<>> THEN @ + 1 ELSE @,
                          !.starts = Append(@,
                            [note_id |-> row.note_id, ts |-> row.ts,
                             at |-> at, batch |-> run.batch,
                             instance |-> Len(instances) + 1])]
  /\ UNCHANGED <<lead_cards, queue, submitted, http_log, webapp, apart>>

\* The loop of the worker ends when the query has no more rows.
ReplayFinish ==
  /\ run.state = "running"
  /\ run.todo = <<>>
  /\ run' = [run EXCEPT !.state = "done"]
  /\ UNCHANGED <<instances, lead_cards, queue, submitted, clock, http_log, webapp, apart>>

\* --------------------------------------------------------- activity steps
\* Each step runs the activity the orchestrator waits for, records its
\* output or its failure, and lets the orchestrator replay over the record.
ActivityCallTextAgent(i) ==
  /\ Awaits(i, "activity_call_text_agent")
  /\ \E llm \in LLMOutcomes :
       instances' = [instances EXCEPT ![i] = text_step(@, Input(i), llm)]
  /\ UNCHANGED <<lead_cards, queue, submitted, run, clock, http_log, webapp, apart>>

\* Variant of the feature fetch whose failure also ends the other running
\* instances.
ActivityFetchStructured_aborting(i) ==
  /\ Awaits(i, "activity_fetch_structured")
  /\ \E snap \in SnapshotOutcomes :
       LET mine == fetch_step(instances[i], Input(i), snap)
       IN instances' = [j \in Ids |->
            IF j = i THEN mine
            ELSE IF mine.status = "Failed" /\ instances[j].status = "Running"
            THEN [instances[j] EXCEPT !.status = "Failed",
                                      !.steps = Append(@, "FAILED")]
            ELSE instances[j]]
  /\ UNCHANGED <<lead_cards, queue, submitted, run, clock, http_log, webapp, apart>>

ActivityFetchStructured(i) ==
  /\ Awaits(i, "activity_fetch_structured")
  /\ \E snap \in SnapshotOutcomes :
       instances' = [instances EXCEPT ![i] = fetch_step(@, Input(i), snap)]
  /\ UNCHANGED <<lead_cards, queue, submitted, run, clock, http_log, webapp, apart>>

ActivityEvaluateRules(i) ==
  /\ Awaits(i, "activity_evaluate_rules")
  /\ instances' = [instances EXCEPT ![i] = eval_step(@, Input(i))]
  /\ UNCHANGED <<lead_cards, queue, submitted, run, clock, http_log, webapp, apart>>

\* activity_write_lead_card: SqlClient.fetch_one commits the INSERT; what
\* follows the commit may still raise.
ActivityWriteLeadCard(i) ==
  /\ Awaits(i, "activity_write_lead_card")
  /\ \E how \in InsertOutcomes :
       /\ lead_cards' = IF how = "error" THEN lead_cards
                         ELSE Append(lead_cards, lead_card_row(Input(i), i))
       /\ instances' = [instances EXCEPT ![i] = write_step(@, how)]
  /\ UNCHANGED <<queue, submitted, run, clock, http_log, webapp, apart>>

Next ==
  \/ HttpStartReplay(ReplayRequests)
  \/ QueueReplayWorker
  \/ ReplayRow
  \/ ReplayFinish
  \/ \E i \in Ids : ActivityCallTextAgent(i)
  \/ \E i \in Ids : ActivityFetchStructured(i)
  \/ \E i \in Ids : ActivityEvaluateRules(i)
  \/ \E i \in Ids : ActivityWriteLeadCard(i)

Spec == Init /\ [][Next]_vars

\* ------------------------------------------------------------------ webapp
\* The bodies posted to /api/evaluate: EvaluateRequest needs customer_id and
\* note.
EvaluateRequests ==
  {[customer_id |-> "C1", note |-> "note 9"], [customer_id |-> "C2"]}

\* How the start function answers the webapp, and how a status poll goes.
StartOutcomes == {"started", "rejected"}
PollOutcomes == {"ok", "error"}

\* The start function behind FUNCTION_START_URL (section 6 of the
\* specification, "Event evaluation entry point"): it starts one instance on
\* the payload it is given and answers with the instance id and a status
\* reference, or it answers with an error status and starts nothing.
http_start_single_analysis(payload, outcome, id) ==
  IF outcome = "started"
  THEN [status_code |-> 202, started |-> TRUE,
        json |-> [id |-> id, statusQueryGetUri |-> id]]
  ELSE [status_code |-> 400, started |-> FALSE, json |-> <<>>]

\* _call_function_start: the payload is customer_id and text, nothing else.
call_function_start(customer_id, note, outcome, id) ==
  LET payload == [customer_id |-> customer_id, text |-> note]
      r == http_start_single_analysis(payload, outcome, id)
  IN [raised |-> r.status_code >= 400, payload |-> payload,
      started |-> r.started, json |-> r.json]

\* What the status URL of an instance answers: the orchestrator never sets a
\* custom status, so customStatus is null; what the orchestrator returned (or
\* the failure it ended with) is the output.
durable_status(inst) ==
  [runtimeStatus |-> inst.status, customStatus |-> None,
   output |-> IF inst.status = "Failed" THEN inst.error ELSE inst.result]

\* _call_status: the JSON of the status URL, or HTTPException(502).
call_status(inst, poll) ==
  IF poll = "error" THEN [raised |-> TRUE]
  ELSE [raised |-> FALSE, data |-> durable_status(inst)]

\* evaluate_status: 404 for an id without a recorded URL, else the
\* projection of the polled status.
evaluate_status(instance_id, urls, store, poll) ==
  IF instance_id \notin urls
  THEN [code |-> 404, instance_id |-> instance_id]
  ELSE LET r == call_status(store[instance_id], poll)
       IN IF r.raised
          THEN [code |-> 502, instance_id |-> instance_id]
          ELSE LET cs == IF r.data.customStatus = None THEN <<>>
                         ELSE r.data.customStatus
               IN [code |-> 200, instance_id |-> instance_id,
                   runtime_status |-> r.data.runtimeStatus,
                   status |-> Get(cs, "status", None),
                   progress |-> Get(cs, "progress", None),
                   result |-> Get(cs, "result", None)]

\* POST /api/evaluate: the request is validated, the start function called,
\* the new instance polled once (a failing poll is ignored) and its status
\* URL kept under its id.
Evaluate ==
  /\ Len(instances) < MaxInst
  /\ \E req \in EvaluateRequests, outcome \in StartOutcomes,
        poll \in PollOutcomes :
       LET id == Len(instances) + 1
       IN IF ~({"customer_id", "note"} \subseteq DOMAIN req)
          THEN /\ answer' = [op |-> "evaluate", code |-> 422]
               /\ UNCHANGED <<instances, INSTANCE_STATUS_URLS>>
          ELSE LET r == call_function_start(req.customer_id, req.note,
                                            outcome, id)
               IN IF r.raised
                  THEN /\ answer' = [op |-> "evaluate", code |-> 500]
                       /\ UNCHANGED <<instances, INSTANCE_STATUS_URLS>>
                  ELSE LET inst == start_new(r.payload)
                           st == call_status(inst, poll)
                       IN /\ instances' = Append(instances, inst)
                          /\ INSTANCE_STATUS_URLS' =
                               INSTANCE_STATUS_URLS \cup {r.json.id}
                          /\ answer' =
                               [op |-> "evaluate", code |-> 200,
                                instance_id |-> r.json.id,
                                runtime_status |->
                                  IF st.raised THEN None
                                  ELSE [value |-> st.data.runtimeStatus]]
  /\ UNCHANGED <<lead_cards, queue, submitted, run, clock, http_log, apart>>

\* EvaluateStatus with a query that records the id it was asked about.
EvaluateStatus_registering ==
  /\ \E instance_id \in 0..Len(instances), poll \in PollOutcomes :
       LET r == evaluate_status(instance_id, INSTANCE_STATUS_URLS,
                                instances, poll)
           created == instance_id \in Ids
       IN /\ answer' = [op |-> "status", response |-> r, created |-> created,
                        stored |-> IF created THEN instances[instance_id].status
                                   ELSE "none"]
          /\ INSTANCE_STATUS_URLS' = INSTANCE_STATUS_URLS \cup {instance_id}
  /\ UNCHANGED <<instances, lead_cards, queue, submitted, run, clock,
                 http_log, apart>>

\* GET /api/evaluate/status/{instance_id}, for the id of an instance or for
\* an id (0) that no instance has; the answer is kept with what the store
\* held for the id at that moment.
EvaluateStatus ==
  /\ \E instance_id \in 0..Len(instances), poll \in PollOutcomes :
       LET r == evaluate_status(instance_id, INSTANCE_STATUS_URLS,
                                instances, poll)
           created == instance_id \in Ids
       IN answer' = [op |-> "status", response |-> r, created |-> created,
                     stored |-> IF created THEN instances[instance_id].status
                                ELSE "none"]
  /\ UNCHANGED <<instances, lead_cards, queue, submitted, run, clock,
                 http_log, INSTANCE_STATUS_URLS, apart>>

\* The engine with both entry points and the status query.
NextGateway ==
  \/ HttpStartReplay(ReplayRequests)
  \/ QueueReplayWorker
  \/ ReplayRow
  \/ ReplayFinish
  \/ \E i \in Ids : ActivityCallTextAgent(i)
  \/ \E i \in Ids : ActivityFetchStructured(i)
  \/ \E i \in Ids : ActivityEvaluateRules(i)
  \/ \E i \in Ids : ActivityWriteLeadCard(i)
  \/ Evaluate
  \/ EvaluateStatus

SpecGateway == Init /\ [][NextGateway]_vars

\* The webapp's two routes over the instances that either entry point has
\* started; of the activities, the text activity runs.
NextStatus ==
  \/ HttpStartReplay(ReplayRequests)
  \/ QueueReplayWorker
  \/ ReplayRow
  \/ ReplayFinish
  \/ \E i \in Ids : ActivityCallTextAgent(i)
  \/ Evaluate
  \/ EvaluateStatus

SpecStatus == Init /\ [][NextStatus]_vars

\* ------------------------------------------------- the text activity on its own
\* Evidence texts, as lists of characters; strip takes the blanks off both
\* ends.
RECURSIVE lstrip(_)
lstrip(t) ==
  IF t # <<>> /\ Head(t) = " " THEN lstrip(Tail(t)) ELSE t

RECURSIVE rstrip(_)
rstrip(t) ==
  IF t # <<>> /\ t[Len(t)] = " " THEN rstrip(SubSeq(t, 1, Len(t) - 1)) ELSE t

strip(t) == rstrip(lstrip(t))

\* What match_text_rules reads of one hit of the model's JSON: rule_id,
\* float(confidence or 0), and the stripped evidence_text ("" when absent).
read_hit(h) ==
  Hit(Get(h, "rule_id", "None"),
      Get(h, "confidence", 0),
      Len(strip(Get(h, "evidence_text", <<>>))))

\* Hits the model may answer with: good ones; rules that are not in the
\* catalog or not named; confidences at and just below the matcher's floor,
\* at and below the guard's floor, above 1, absent; evidence that is long
\* enough only with its blanks, that is just long enough, that is absent.
RawHits ==
  {[rule_id |-> "closing", confidence |-> 700,
    evidence_text |-> <<"c", "l", "o", "s", "e">>],
   [rule_id |-> "high_fees", confidence |-> 600,
    evidence_text |-> <<" ", "f", "e", "e", "s", " ">>],
   [rule_id |-> "high_fees", confidence |-> 1500,
    evidence_text |-> <<"f", "e", "e", "s">>],
   [rule_id |-> "made_up", confidence |-> 900,
    evidence_text |-> <<"c", "l", "o", "s", "e">>],
   [confidence |-> 900, evidence_text |-> <<"c", "l", "o", "s", "e">>],
   [rule_id |-> "closing", confidence |-> 599,
    evidence_text |-> <<"c", "l", "o", "s", "e">>],
   [rule_id |-> "closing", confidence |-> 500,
    evidence_text |-> <<"c", "l", "o", "s", "e">>],
   [rule_id |-> "closing", evidence_text |-> <<"c", "l", "o", "s", "e">>],
   [rule_id |-> "closing", confidence |-> 800,
    evidence_text |-> <<" ", "f", "e", "e", " ">>],
   [rule_id |-> "closing", confidence |-> 800]}

RawAnswers ==
  {<<>>} \cup {<<a>> : a \in RawHits}
         \cup {<<a, b>> : a \in RawHits, b \in RawHits}
         \cup {<<a, b, c>> : a \in RawHits, b \in RawHits, c \in RawHits}

\* The calls of the text activity: the model's answer fails, has the wrong
\* shape, or is a list of hits.
TextCalls ==
  {[kind |-> k, raw |-> <<>>, output |-> None] : k \in {"error", "malformed"}}
    \cup {[kind |-> "ok", raw |-> a, output |-> None] : a \in RawAnswers}

InitText ==
  /\ instances = <<>>
  /\ lead_cards = <<>>
  /\ queue = <<>>
  /\ submitted = 0
  /\ run = IdleRun
  /\ clock = 0
  /\ http_log = <<>>
  /\ INSTANCE_STATUS_URLS = {}
  /\ answer = None
  /\ scoring = None
  /\ app = None
  /\ matching \in TextCalls

\* One call of activity_call_text_agent on the answer drawn at the start.
CallTextAgent ==
  /\ matching # None
  /\ matching.output = None
  /\ matching' =
       [matching EXCEPT !.output =
          activity_call_text_agent(
            [customer_id |-> "C1", note_id |-> 1, ts |-> 0, text |-> "note 1"],
            [kind |-> matching.kind,
             rule_hits |-> [k \in 1..Len(matching.raw) |->
                              read_hit(matching.raw[k])]])]
  /\ UNCHANGED <<instances, lead_cards, queue, submitted, run, clock, http_log,
                 webapp, scoring, app>>

NextText == CallTextAgent

SpecText == InitText /\ [][NextText]_vars

\* --------------------------------------------------------------- cold start
\* What the rules_library query can produce when USE_SQL_RULES is "1": an
\* exception, no active row, a row whose ruleset_yaml is null or does not
\* parse to a mapping, or a row with a ruleset.
SqlRulesOutcomes ==
  {[kind |-> "error"],
   [kind |-> "norow"],
   [kind |-> "row", ruleset_yaml |-> "null"],
   [kind |-> "row", ruleset_yaml |-> "invalid"],
   [kind |-> "row", ruleset_yaml |-> "mapping", doc |-> RULESET,
    version |-> "v2"],
   [kind |-> "row", ruleset_yaml |-> "mapping",
    doc |-> [text_rules |-> RULESET.text_rules], version |-> "v2"]}

\* sql/sample_rules.yaml beside the code: not there, empty, or a ruleset with
\* or without a version.
YamlFiles ==
  {[kind |-> "missing"],
   [kind |-> "empty"],
   [kind |-> "file", doc |-> [version |-> RULESET_VERSION] @@ RULESET],
   [kind |-> "file", doc |-> RULESET]}

\* LEAD_SCORE_THRESHOLD in the environment: not set, a number, not a number.
ThresholdSettings == {"unset", "0.5", "abc"}

Environments ==
  {[USE_SQL_RULES |-> u, sql |-> q, yaml_file |-> y,
    LEAD_SCORE_THRESHOLD |-> t] :
     u \in {"0", "1"}, q \in SqlRulesOutcomes, y \in YamlFiles,
     t \in ThresholdSettings}

\* load_active_ruleset: with USE_SQL_RULES the active row's ruleset, with its
\* version put into it, is returned as it is; in every other case (also after
\* an exception in the SQL branch) the local file is read and returned with
\* its version, "dev" when it names none.
load_active_ruleset(env) ==
  IF /\ env.USE_SQL_RULES = "1"
     /\ env.sql.kind = "row"
     /\ env.sql.ruleset_yaml = "mapping"
  THEN [raised |-> FALSE, shape |-> "dict",
        value |-> [version |-> env.sql.version] @@ env.sql.doc]
  ELSE IF env.yaml_file.kind = "missing"
       THEN [raised |-> TRUE, error |-> "FileNotFoundError"]
       ELSE IF env.yaml_file.kind = "empty"
            THEN [raised |-> TRUE, error |-> "AttributeError"]
            ELSE [raised |-> FALSE, shape |-> "pair",
                  value |-> env.yaml_file.doc,
                  version |-> Get(env.yaml_file.doc, "version", "dev")]

\* float(os.getenv("LEAD_SCORE_THRESHOLD", "0.7")), in millionths.
threshold_of(setting) ==
  IF setting = "unset" THEN [raised |-> FALSE, value |-> THRESHOLD]
  ELSE IF setting = "0.5" THEN [raised |-> FALSE, value |-> 500000]
  ELSE [raised |-> TRUE, error |-> "ValueError"]

\* The import of function_app: the result of load_active_ruleset is unpacked
\* into _RULESET and _RULESET_VERSION (a dict unpacks into its keys, and only
\* when it has two of them), then THRESHOLD is read. An exception ends the
\* import: no function is registered.
cold_start(env) ==
  LET r == load_active_ruleset(env)
      t == threshold_of(env.LEAD_SCORE_THRESHOLD)
      failed(e, at) == [env |-> env, state |-> "failed", error |-> e,
                        step |-> at, evaluated |-> None,
                        main_evaluated |-> None]
  IN IF r.raised THEN failed(r.error, "load")
     ELSE IF r.shape = "dict" /\ Cardinality(DOMAIN r.value) # 2
          THEN failed("ValueError", "unpack")
          ELSE IF t.raised THEN failed(t.error, "threshold")
               ELSE [env |-> env, state |-> "loaded", error |-> "none",
                     step |-> "none", main_evaluated |-> None,
                     _RULESET |-> IF r.shape = "pair"
                                  THEN [kind |-> "mapping", value |-> r.value]
                                  ELSE [kind |-> "key"],
                     _RULESET_VERSION |-> IF r.shape = "pair" THEN r.version
                                          ELSE "key",
                     THRESHOLD |-> t.value,
                     evaluated |-> None]

\* Inputs of the evaluation activity: a hit that alone reaches 0.7, and a
\* hit with a rate change that reach 0.69.
StartupPayloads ==
  {[text_result |-> [rule_hits |-> <<Hit("closing", 700, 12)>>],
    features |-> [customer_id |-> "C1"],
    event |-> [note_id |-> 1, ts |-> 0]],
   [text_result |-> [rule_hits |-> <<Hit("high_fees", 900, 12)>>],
    features |-> [customer_id |-> "C1", current_rate |-> 500,
                  prev_rate |-> 380, rate_diff |-> 120, term_months |-> 24],
    event |-> [note_id |-> 2, ts |-> 10]]}

InitStartup ==
  /\ instances = <<>>
  /\ lead_cards = <<>>
  /\ queue = <<>>
  /\ submitted = 0
  /\ run = IdleRun
  /\ clock = 0
  /\ http_log = <<>>
  /\ INSTANCE_STATUS_URLS = {}
  /\ answer = None
  /\ scoring = None
  /\ matching = None
  /\ app \in {[env |-> e, state |-> "cold", error |-> "none",
                step |-> "none", evaluated |-> None,
                main_evaluated |-> None] : e \in Environments}

\* The worker process imports function_app.
ColdStart ==
  /\ app # None
  /\ app.state = "cold"
  /\ app' = cold_start(app.env)
  /\ UNCHANGED <<instances, lead_cards, queue, submitted, run, clock, http_log,
                 webapp, scoring, matching>>

\* The loaded app takes work: activity_evaluate_rules runs on the globals of
\* the import; score_event calls ruleset.get, which a str does not have.
EvaluateLoaded ==
  /\ app # None
  /\ app.state = "loaded"
  /\ app.evaluated = None
  /\ \E payload \in StartupPayloads :
       app' = [app EXCEPT !.evaluated =
                 IF app._RULESET.kind = "mapping"
                 THEN [raised |-> FALSE,
                       result |-> evaluate_rules(app._RULESET.value,
                                    app._RULESET_VERSION, app.THRESHOLD,
                                    payload)]
                 ELSE [raised |-> TRUE, error |-> "AttributeError"]]
  /\ UNCHANGED <<instances, lead_cards, queue, submitted, run, clock, http_log,
                 webapp, scoring, matching>>

\* main of the activity_evaluate_rules package: its import reads THRESHOLD,
\* each call loads the ruleset and hands what load_active_ruleset returned to
\* score_event, which calls .get on it (a tuple has none), and then reads
\* ruleset["version"].
evaluate_rules_main(env, payload) ==
  LET t == threshold_of(env.LEAD_SCORE_THRESHOLD)
      r == load_active_ruleset(env)
  IN IF t.raised
     THEN [raised |-> TRUE, error |-> t.error, step |-> "import"]
     ELSE IF r.raised
          THEN [raised |-> TRUE, error |-> r.error, step |-> "load"]
          ELSE IF r.shape = "pair"
               THEN [raised |-> TRUE, error |-> "AttributeError",
                     step |-> "score_event"]
               ELSE [raised |-> FALSE, error |-> "none", step |-> "none",
                     result |-> evaluate_rules(r.value, r.value.version,
                                               t.value, payload)]

\* One call of that main, in a worker that has been started.
EvaluateMain ==
  /\ app # None
  /\ app.state # "cold"
  /\ app.main_evaluated = None
  /\ \E payload \in StartupPayloads :
       app' = [app EXCEPT
                 !.main_evaluated = evaluate_rules_main(app.env, payload)]
  /\ UNCHANGED <<instances, lead_cards, queue, submitted, run, clock, http_log,
                 webapp, scoring, matching>>

NextStartup == ColdStart \/ EvaluateLoaded \/ EvaluateMain

SpecStartup == InitStartup /\ [][NextStartup]_vars

\* ------------------------------------------------------ the scorer on its own
\* Rulesets, hit lists and features the scorer is called with: the loaded
\* ruleset, one that leaves weights and floor to the defaults, one with
\* weights that are large or negative; confidences at, below and above the
\* floor, above 1 and negative; feature magnitudes negative and large.
ScoreRulesets ==
  {RULESET,
   [text_rules |-> [high_fees |-> [weight |-> 500]]],
   [weights |-> [rate_diff |-> 5000, tenure |-> 0 - 2000],
    confidence_floor |-> 0,
    text_rules |-> [high_fees |-> [weight |-> 9000],
                    closing |-> [weight |-> 0 - 3000]]]}

ScoreHits ==
  {<<>>,
   <<Hit("high_fees", 900, 12)>>,
   <<Hit("closing", 599, 12), Hit("high_fees", 600, 0)>>,
   <<Hit("closing", 5000, 12)>>,
   <<Hit("other", 700, 12)>>,
   <<Hit("closing", 0 - 500, 12), Hit("high_fees", 1000, 12)>>}

ScoreFeatures ==
  {[customer_id |-> "C1"],
   [customer_id |-> "C1", current_rate |-> 500, prev_rate |-> 380,
    rate_diff |-> 120, term_months |-> 24, account_age_days |-> 60],
   [customer_id |-> "C1", current_rate |-> 380, prev_rate |-> 500,
    rate_diff |-> 0 - 120, term_months |-> 24, account_age_days |-> 0 - 400],
   [customer_id |-> "C1", current_rate |-> 1000000, prev_rate |-> 0,
    rate_diff |-> 1000000, term_months |-> 24, account_age_days |-> 100000],
   [customer_id |-> "C1", current_rate |-> 500, prev_rate |-> 500,
    rate_diff |-> 0, term_months |-> 24],
   [customer_id |-> "C1", term_months |-> 24, account_age_days |-> 90]}

ScoreCalls ==
  {[ruleset |-> r, text_result |-> [rule_hits |-> h], features |-> f,
    details |-> None, result |-> None] :
     r \in ScoreRulesets, h \in ScoreHits, f \in ScoreFeatures}

InitScore ==
  /\ instances = <<>>
  /\ lead_cards = <<>>
  /\ queue = <<>>
  /\ submitted = 0
  /\ run = IdleRun
  /\ clock = 0
  /\ http_log = <<>>
  /\ INSTANCE_STATUS_URLS = {}
  /\ answer = None
  /\ scoring \in ScoreCalls
  /\ app = None
  /\ matching = None

\* One call of score_event, as activity_evaluate_rules makes it, on the
\* arguments drawn at the start.
ScoreEvent ==
  /\ scoring # None
  /\ scoring.details = None
  /\ scoring' =
       [scoring EXCEPT
          !.details = score_event(scoring.ruleset, scoring.text_result,
                                  scoring.features),
          !.result = evaluate_rules(scoring.ruleset, RULESET_VERSION, THRESHOLD,
                       [text_result |-> scoring.text_result,
                        features |-> scoring.features,
                        event |-> [note_id |-> 1, ts |-> 0]])]
  /\ UNCHANGED <<instances, lead_cards, queue, submitted, run, clock, http_log,
                 webapp, app, matching>>

NextScore == ScoreEvent

SpecScore == InitScore /\ [][NextScore]_vars

\* ------------------------------------------- replay submission on its own
\* A request to cancel the replay run that is under way (section 5 of the
\* specification; the worker has no input of this kind).
CancelReplay ==
  /\ run.state = "running"
  /\ ~run.cancelled
  /\ run' = [run EXCEPT !.cancelled = TRUE]
  /\ UNCHANGED <<instances, lead_cards, queue, submitted, clock, http_log, webapp, apart>>

\* The submission endpoint and the worker under every kind of request; the
\* instances are started and left to themselves.
NextReplay ==
  \/ HttpStartReplay(AllReplayRequests)
  \/ QueueReplayWorker
  \/ ReplayRow
  \/ ReplayFinish
  \/ CancelReplay

SpecReplay == Init /\ [][NextReplay]_vars

\* =============================================================== properties
PlainSteps ==
  <<"STARTED", "TEXT_MATCHED", "FEATURES_FETCHED", "EVALUATED", "COMPLETED">>
CardSteps ==
  <<"STARTED", "TEXT_MATCHED", "FEATURES_FETCHED", "EVALUATED", "CARD_WRITTEN",
    "COMPLETED">>

IsPrefix(s, t) == Len(s) <= Len(t) /\ s = SubSeq(t, 1, Len(s))
Front(s) == SubSeq(s, 1, Len(s) - 1)
Terminal(inst) == inst.status \in {"Completed", "Failed"}
Evaluated(inst) == inst.eval_result # None
CardsOf(i) == {k \in 1..Len(lead_cards) : lead_cards[k].instance = i}

\* C1: the steps recorded for an instance are, once it completes, exactly
\* STARTED, TEXT_MATCHED, FEATURES_FETCHED, EVALUATED, COMPLETED when the score
\* is below the threshold and the same with CARD_WRITTEN before COMPLETED when
\* the score reaches it; before that (and for an instance that fails, before
\* its FAILED) they are a beginning of that sequence, in that order, with no
\* step left out.
StepSequenceExact ==
  \A i \in Ids :
    LET inst == instances[i]
        s == inst.steps
    IN /\ inst.status = "Completed" =>
            /\ Evaluated(inst)
            /\ s = IF inst.eval_result.score >= THRESHOLD
                   THEN CardSteps ELSE PlainSteps
       /\ inst.status = "Running" =>
            /\ IsPrefix(s, Front(CardSteps))
            /\ Len(s) = 5 => inst.eval_result.score >= THRESHOLD
       /\ inst.status = "Failed" =>
            /\ s[Len(s)] = "FAILED"
            /\ IsPrefix(Front(s), Front(CardSteps))
            /\ Len(s) = 6 => inst.eval_result.score >= THRESHOLD

\* C1 witness: one instance completed on the card path and one on the plain
\* path.
StepSequenceBothPaths ==
  \E i, j \in Ids :
    /\ instances[i].steps = CardSteps
    /\ instances[j].steps = PlainSteps

\* C2: the write activity of an instance is invoked if and only if the score
\* evaluated for it is at least the threshold (equal counts), it is invoked at
\* most once, and an instance that completes after it has exactly one row in
\* lead_cards.
CardIffThreshold ==
  \A i \in Ids :
    LET inst == instances[i]
    IN /\ inst.calls.write <= 1
       /\ Cardinality(CardsOf(i)) <= inst.calls.write
       /\ inst.calls.write = 1 =>
            Evaluated(inst) /\ inst.eval_result.score >= THRESHOLD
       /\ (Evaluated(inst) /\ inst.eval_result.score < THRESHOLD) =>
            inst.status = "Completed" /\ inst.calls.write = 0
       /\ (Evaluated(inst) /\ inst.eval_result.score >= THRESHOLD) =>
            \/ inst.calls.write = 1
            \/ Awaits(i, "activity_write_lead_card")
       /\ (inst.status = "Completed" /\ inst.eval_result.score >= THRESHOLD) =>
            Cardinality(CardsOf(i)) = 1

\* C2 witness: a score equal to the threshold wrote its card, and a score
\* one confidence step below the threshold completed without one.
CardAtThresholdOnly ==
  \E i, j \in Ids :
    /\ instances[i].status = "Completed"
    /\ instances[i].eval_result.score = THRESHOLD
    /\ Cardinality(CardsOf(i)) = 1
    /\ instances[j].status = "Completed"
    /\ instances[j].eval_result.score = THRESHOLD - 1000
    /\ instances[j].calls.write = 0
    /\ CardsOf(j) = {}

\* C3 (as claimed): an instance that ended FAILED has no row in lead_cards.
NoCardForFailed ==
  \A i \in Ids : instances[i].status = "Failed" => CardsOf(i) = {}

FailedTextCallStops ==
  \A i \in Ids :
    LET inst == instances[i]
    IN inst.llm \in {"error", "malformed"} =>
         /\ inst.features = None
         /\ inst.eval_result = None
         /\ inst.status # "Completed"

Recorded(inst, a) ==
  CASE a = "text" -> inst.text_res # None
    [] a = "fetch" -> inst.features # None
    [] a = "eval" -> inst.eval_result # None
    [] a = "write" -> inst.card # None

ActivityOrder == <<"text", "fetch", "eval", "write">>
ActivityName ==
  [text |-> "activity_call_text_agent", fetch |-> "activity_fetch_structured",
   eval |-> "activity_evaluate_rules", write |-> "activity_write_lead_card"]

\* C6: the orchestrator always resumes from the record: an activity whose
\* output is recorded has been invoked once and is not invoked again, the
\* activity a running instance waits for is the first one, in the order of the
\* orchestrator, that has no recorded output, it has not been invoked yet, and
\* every activity before it is recorded.
ResumeFromLastRecorded ==
  \A i \in Ids :
    LET inst == instances[i]
    IN /\ \A k \in 1..4 :
            LET a == ActivityOrder[k]
            IN /\ Recorded(inst, a) => inst.calls[a] = 1
               /\ inst.calls[a] >= 1 =>
                    \A m \in 1..(k - 1) : Recorded(inst, ActivityOrder[m])
       /\ inst.status = "Running" =>
            \E k \in 1..4 :
              /\ Awaits(i, ActivityName[ActivityOrder[k]])
              /\ inst.calls[ActivityOrder[k]] = 0
              /\ ~Recorded(inst, ActivityOrder[k])
              /\ \A m \in 1..(k - 1) : Recorded(inst, ActivityOrder[m])

\* C6 witness: an instance resumed after two recorded steps waits for the
\* third, the first two invoked once each.
ResumedAtEvaluate ==
  \E i \in Ids :
    /\ Awaits(i, "activity_evaluate_rules")
    /\ instances[i].steps = <<"STARTED", "TEXT_MATCHED", "FEATURES_FETCHED">>
    /\ instances[i].calls = [text |-> 1, fetch |-> 1, eval |-> 0, write |-> 0]

StepRank ==
  [STARTED |-> 1, TEXT_MATCHED |-> 2, FEATURES_FETCHED |-> 3, EVALUATED |-> 4,
   CARD_WRITTEN |-> 5, COMPLETED |-> 6, FAILED |-> 6]

\* C8: in every step of the system, an instance that has ended stays as it
\* is; the steps recorded for an instance are only ever extended, they
\* follow one total order (which puts COMPLETED and FAILED last, so that at
\* most one of them is recorded), and an output, once recorded, is the same
\* after the step.
HistoryAppendOnly ==
  [][\A i \in Ids :
       LET a == instances[i]
           b == instances'[i]
       IN /\ Terminal(a) => b = a
          /\ IsPrefix(a.steps, b.steps)
          /\ \A k, m \in 1..Len(b.steps) :
               k < m => StepRank[b.steps[k]] < StepRank[b.steps[m]]
          /\ Terminal(b) <=> StepRank[b.steps[Len(b.steps)]] = 6
          /\ a.text_res # None => b.text_res = a.text_res
          /\ a.features # None => b.features = a.features
          /\ a.eval_result # None => b.eval_result = a.eval_result
          /\ a.card # None => b.card = a.card]_vars

\* C8 witness: an instance that failed in its last step, after its first
\* three outputs were recorded, next to a completed one.
EndedAfterRecordedOutputs ==
  \E i, j \in Ids :
    /\ instances[i].steps =
         <<"STARTED", "TEXT_MATCHED", "FEATURES_FETCHED", "EVALUATED", "FAILED">>
    /\ instances[i].eval_result # None
    /\ instances[j].steps = PlainSteps

\* C9 (as claimed): the first start of a run comes with no delay and every
\* later one follows the start before it by the gap between the two events'
\* timestamps divided by the compression factor.
StartsFollowInterArrival ==
  \A k \in 1..Len(run.starts) :
    LET cur == run.starts[k]
    IN IF k = 1
       THEN cur.at = run.began
       ELSE cur.at - run.starts[k - 1].at =
              ((cur.ts - run.starts[k - 1].ts) * 1000000) \div run.accelerate

WindowNotes(from_ts, to_ts) ==
  {NotesTable[k].note_id : k \in {n \in 1..Len(NotesTable) :
      NotesTable[n].ts >= from_ts /\ NotesTable[n].ts < to_ts}}

\* C10: in a run of the replay worker every start is for an event of the
\* window [from_ts, to_ts), no event is started twice, the starts are issued
\* in ascending order of event timestamp across the batches, each start
\* created the instance of its event, and when the run is done every event of
\* the window has been started.
OneStartPerEventInOrder ==
  LET st == run.starts
      w == WindowNotes(run.from_ts, run.to_ts)
  IN /\ \A k \in 1..Len(st) :
          /\ st[k].note_id \in w
          /\ instances[st[k].instance].event.note_id = st[k].note_id
          /\ \A m \in 1..Len(st) :
               /\ k < m => st[k].ts <= st[m].ts /\ st[k].batch <= st[m].batch
               /\ k # m => st[k].note_id # st[m].note_id
                            /\ st[k].instance # st[m].instance
     /\ run.state = "done" => {st[k].note_id : k \in 1..Len(st)} = w

\* C10 witness: a finished run that started two events from two batches.
RunDoneAcrossBatches ==
  /\ run.state = "done"
  /\ Len(run.starts) >= 2
  /\ run.starts[1].batch # run.starts[2].batch

\* A job the worker has taken and parsed.
Parsed == run.state # "idle" /\ run.error \notin {"KeyError", "ValueError"}

\* C11: a job whose to_ts is not after its from_ts starts no instance and
\* its run raises nothing, whatever its factor (zero included): the worker
\* has no row to go through and can only finish.
EmptyWindowStartsNothing ==
  (Parsed /\ run.to_ts <= run.from_ts) =>
    /\ run.starts = <<>>
    /\ run.todo = <<>>
    /\ run.error = "none"
    /\ run.state \in {"running", "done"}

\* C11 witness: a finished run over a window that ends before it begins,
\* with a factor of zero.
EmptyWindowDone ==
  /\ run.state = "done"
  /\ run.to_ts < run.from_ts
  /\ run.accelerate = 0
  /\ run.starts = <<>>
  /\ instances = <<>>

NonPositiveFactor(body) ==
  /\ "accelerate" \in DOMAIN body
  /\ "accelerate" \notin Get(body, "unparsable", {})
  /\ body.accelerate <= 0

\* C12 (as claimed): a request whose factor is zero or negative is not
\* answered with 202, is not put on the queue, and no instance is started
\* for it.
NonPositiveFactorRejected ==
  /\ \A k \in 1..Len(http_log) :
       (http_log[k].json /\ NonPositiveFactor(http_log[k].body)) =>
         http_log[k].status # 202
  /\ \A k \in 1..Len(queue) : ~NonPositiveFactor(queue[k])
  /\ (run.state # "idle" /\ NonPositiveFactor(run.payload)) =>
       run.starts = <<>>

MalformedBody(e) ==
  \/ ~e.json
  \/ ~({"from_ts", "to_ts"} \subseteq DOMAIN e.body)
  \/ Get(e.body, "unparsable", {}) # {}
  \/ NonPositiveFactor(e.body)

\* C13 (as claimed): the answer of the submission is 202 when the request is
\* put on the queue, a 4xx status when its body is malformed, and a 5xx
\* status with the error's text when the queue could not be written.
SubmissionStatusByCase ==
  \A k \in 1..Len(http_log) :
    LET e == http_log[k]
    IN IF MalformedBody(e) THEN e.status \in 400..499
       ELSE IF e.enqueue = "error"
       THEN e.status \in 500..599 /\ e.detail = "queue error"
       ELSE e.status = 202

\* C14 (as claimed): for a job that is malformed (a timestamp missing or
\* not parsable, a factor or batch size that is not a number, a factor that
\* is not positive) the worker never calls start_new.
MalformedJobStartsNothing ==
  (run.state # "idle"
     /\ MalformedBody([json |-> TRUE, body |-> run.payload])) =>
    run.starts = <<>>

\* Instances of the current run that have not ended.
InFlight ==
  {k \in 1..Len(run.starts) : ~Terminal(instances[run.starts[k].instance])}

\* C15 (as claimed): the instances started by a run and not yet ended are
\* kept below a maximum, so that the run waits with its next start; stated
\* for every maximum smaller than the window: over a window of two or more
\* events the run never has all of them in flight.
InFlightBelowWindow ==
  LET n == Cardinality(WindowNotes(run.from_ts, run.to_ts))
  IN (run.state # "idle" /\ n >= 2) => Cardinality(InFlight) < n

\* C16 (as claimed): once the run is cancelled, no further instance is
\* started for it.
NoStartAfterCancel ==
  [][(run.cancelled /\ run'.cancelled) => run'.starts = run.starts]_vars

\* C17: a step in which an instance fails leaves every other instance as it
\* was (history and outcome), leaves the replay run and the queue as they
\* were, and the worker's next start stays possible whenever it has rows left
\* (and room in the model), whatever has failed.
FailureIsLocal ==
  [][/\ \A i \in Ids :
          (instances[i].status # "Failed" /\ instances'[i].status = "Failed") =>
            /\ \A j \in Ids \ {i} : instances'[j] = instances[j]
            /\ Len(instances') = Len(instances)
            /\ run' = run
            /\ queue' = queue
     /\ (run.state = "running" /\ run.todo # <<>> /\ Len(instances) < MaxInst)
          => ENABLED ReplayRow]_vars

\* C17 witness: the first instance of a run failed in an activity, the run
\* went on to its end and the instance started after it completed.
FailedBesideCompleted ==
  \E i, j \in Ids :
    /\ i < j
    /\ instances[i].status = "Failed"
    /\ instances[i].error # None
    /\ instances[j].status = "Completed"
    /\ run.state = "done"
    /\ Len(run.starts) = 2

\* The records an instance can have when it is the only one: start_new on
\* its event, then up to four activity steps, each with any of the outcomes
\* its activity can have.
SoloSteps(inst) ==
  LET r == orchestrator_event_replay(inst)
  IN IF inst.status # "Running" \/ r.kind # "schedule" THEN {}
     ELSE IF r.activity = "activity_call_text_agent"
     THEN {text_step(inst, r.input, llm) : llm \in LLMOutcomes}
     ELSE IF r.activity = "activity_fetch_structured"
     THEN {fetch_step(inst, r.input, snap) : snap \in SnapshotOutcomes}
     ELSE IF r.activity = "activity_evaluate_rules"
     THEN {eval_step(inst, r.input)}
     ELSE {write_step(inst, how) : how \in InsertOutcomes}

SoloClosure(S) == S \cup UNION {SoloSteps(x) : x \in S}

RunAlone(event) ==
  SoloClosure(SoloClosure(SoloClosure(SoloClosure({start_new(event)}))))

RunAloneOf ==
  [k \in 1..Len(NotesTable) |-> RunAlone(NotesTable[k])]

NoteIndex(event) ==
  CHOOSE k \in 1..Len(NotesTable) : NotesTable[k].note_id = event.note_id

\* C18: whatever the interleaving of the steps of the instances, the record
\* of each instance (its step outputs, its history, its result) is one that
\* the instance reaches when it runs alone on its event, and a step of one
\* instance is decided by that instance's record alone.
IsolatedAsAlone ==
  \A i \in Ids : instances[i] \in RunAloneOf[NoteIndex(instances[i].event)]

\* C18 witness: two instances of different customers, both past their
\* feature fetch, one of them ended, while the other is still running.
InterleavedInstances ==
  \E i, j \in Ids :
    /\ instances[i].event.customer_id # instances[j].event.customer_id
    /\ instances[i].features # None
    /\ instances[j].features # None
    /\ instances[i].status = "Running"
    /\ instances[j].status = "Completed"

\* C19 (as claimed): the status query answers NotFound exactly for the ids
\* of no instance: an instance that has been created, by the live entry
\* point or by the replay worker, is never answered with NotFound.
StatusKnowsEveryInstance ==
  (answer # None /\ answer.op = "status") =>
    (answer.response.code = 404 <=> ~answer.created)

\* C20 (as claimed): the answer of the status query for an instance that is
\* FAILED carries the step that failed and the detail of the error (a query
\* whose poll of the status URL failed aside).
FailedStatusNamesStep ==
  (answer # None /\ answer.op = "status" /\ answer.stored = "Failed"
     /\ answer.response.code # 502) =>
    /\ answer.response.code = 200
    /\ \/ answer.response.status # None
       \/ answer.response.progress # None
       \/ answer.response.result # None

\* A call of the scorer that has returned.
Scored == scoring # None /\ scoring.details # None

\* C24: the score that score_event returns, and that the activity passes
\* on, is at least 0 and at most 1 (1000000 millionths), for every ruleset,
\* hit list and feature record it is called with.
ScoreWithinUnit ==
  Scored =>
    /\ scoring.details.score >= 0
    /\ scoring.details.score <= 1000000
    /\ scoring.result.score = scoring.details.score

\* C24 witness: a call with a very large rate change and very large weights,
\* whose sum is far above 1, returned exactly 1.
ScoreClampedAtOne ==
  /\ Scored
  /\ "rate_diff" \in DOMAIN scoring.features
  /\ scoring.features.rate_diff = 1000000
  /\ score_event_unclamped(scoring.ruleset, scoring.text_result,
                           scoring.features).score > 1000000
  /\ scoring.details.score = 1000000

\* The worked example: one hit on high_fees (weight 0.5) with confidence 0.9,
\* a rate change of 1.2 (weight 0.3), an account of 60 days (tenure weight
\* 0.1).
WorkedExample ==
  /\ scoring # None
  /\ scoring.ruleset = RULESET
  /\ scoring.text_result = [rule_hits |-> <<Hit("high_fees", 900, 12)>>]
  /\ "rate_diff" \in DOMAIN scoring.features
  /\ scoring.features.rate_diff = 120
  /\ scoring.features.account_age_days = 60

\* The orchestrator of an instance whose evaluation returned res schedules
\* the card write.
TakesCardPath(res) ==
  LET inst == [start_new(NotesTable[3]) EXCEPT
                 !.text_res = scoring.text_result,
                 !.features = scoring.features,
                 !.eval_result = res]
      r == orchestrator_event_replay(inst)
  IN r.kind = "schedule" /\ r.activity = "activity_write_lead_card"

InList(x, seq) == \E k \in 1..Len(seq) : seq[k] = x

\* C27 (as claimed): the worked example scores 0.45 + 0.3 + 0.033, about
\* 0.783, reaches the threshold, takes the card path, and its explanation
\* lists the rate change and the evidence.
WorkedExampleIs783 ==
  (WorkedExample /\ Scored) =>
    /\ Abs(scoring.details.score - 783333) <= 1000
    /\ scoring.result.should_emit
    /\ TakesCardPath(scoring.result)
    /\ InList("rate", scoring.details.explanation_text)
    /\ InList("evidence", scoring.details.explanation_text)

\* C27 (amended): the worked example scores 0.45 + 0.24 + 0.0333, that is
\* 0.7233 (the rate term is min(1.2 / 1.5, 1) * 0.3 = 0.24), which reaches
\* the threshold: the evaluation says to emit, the orchestrator schedules the
\* card write, and the explanation lists the rate change and the evidence.
WorkedExampleIs723 ==
  (WorkedExample /\ Scored) =>
    /\ scoring.details.score = 450000 + 240000 + 33300
    /\ scoring.details.score >= THRESHOLD
    /\ scoring.result.should_emit
    /\ TakesCardPath(scoring.result)
    /\ InList("rate", scoring.details.explanation_text)
    /\ InList("evidence", scoring.details.explanation_text)

\* C27 witness: the worked example has been scored and says to emit.
WorkedExampleScored ==
  /\ WorkedExample
  /\ Scored
  /\ scoring.result.should_emit

\* The hits of the call that reach the floor of its ruleset, and what each
\* adds.
KeptHits ==
  SelectSeq(scoring.text_result.rule_hits,
            LAMBDA h : h.confidence >=
                         Get(scoring.ruleset, "confidence_floor", DefaultFloor))

HitWeight(h) ==
  LET rules == Get(scoring.ruleset, "text_rules", <<>>)
  IN IF h.rule_id \in DOMAIN rules /\ "weight" \in DOMAIN rules[h.rule_id]
     THEN rules[h.rule_id].weight ELSE DefaultTextWeight

RECURSIVE HitSum(_)
HitSum(hits) ==
  IF hits = <<>> THEN 0
  ELSE Head(hits).confidence * HitWeight(Head(hits)) + HitSum(Tail(hits))

\* C30: the hits below the floor add nothing: rule_hits_json is the list of
\* the hits at or above the floor, in their order; the explanation has one
\* evidence line per such hit that has evidence; and the score is the
\* clamped sum of what the call scores without any hit and of confidence
\* times rule weight over the hits at or above the floor.
FloorFiltersHits ==
  Scored =>
    LET without == score_event_unclamped(scoring.ruleset,
                     [rule_hits |-> <<>>], scoring.features)
        lines == SelectSeq(scoring.details.explanation_text,
                           LAMBDA e : e = "evidence")
    IN /\ scoring.details.rule_hits_json = KeptHits
       /\ Len(lines) = Len(SelectSeq(KeptHits, LAMBDA h : h.evidence_len > 0))
       /\ scoring.details.score =
            Max(0, Min(without.score + HitSum(KeptHits), 1000000))

\* C30 witness: of two hits, one just below the floor and one at the floor,
\* only the one at the floor is in rule_hits_json.
HitAtFloorKept ==
  /\ Scored
  /\ scoring.ruleset = RULESET
  /\ scoring.text_result.rule_hits =
       <<Hit("closing", 599, 12), Hit("high_fees", 600, 0)>>
  /\ scoring.details.rule_hits_json = <<Hit("high_fees", 600, 0)>>
  /\ scoring.features = [customer_id |-> "C1"]
  /\ scoring.details.score = 300000

\* An instance whose feature fetch found no snapshot row.
NoSnapshot(inst) ==
  /\ inst.snap = "norow"
  /\ inst.features # None
  /\ DOMAIN inst.features = {"customer_id"}

\* C25: an instance whose customer has no snapshot row gets its features
\* recorded without error, with none of current_rate, prev_rate, rate_diff,
\* term_months, account_age_days in them (and rate_diff is in no features
\* without both rates); it goes on to EVALUATED, where the structured part
\* adds nothing to its score, and it ends COMPLETED: only a failing card
\* write, after EVALUATED, can still make it FAILED.
NoSnapshotCompletes ==
  \A i \in Ids :
    LET inst == instances[i]
    IN /\ (inst.features # None /\ "rate_diff" \in DOMAIN inst.features) =>
            {"current_rate", "prev_rate"} \subseteq DOMAIN inst.features
       /\ inst.snap = "norow" =>
            /\ NoSnapshot(inst)
            /\ IsPrefix(<<"STARTED", "TEXT_MATCHED", "FEATURES_FETCHED">>,
                        inst.steps)
            /\ inst.calls.fetch = 1
            /\ inst.eval_result # None =>
                 /\ InList("EVALUATED", inst.steps)
                 /\ inst.eval_result.score =
                      score_event(RULESET, inst.text_res, <<>>).score
                 /\ inst.eval_result.score < THRESHOLD =>
                      inst.status = "Completed"
            /\ inst.status = "Failed" =>
                 inst.error # None /\ inst.error.step = "write"
            /\ inst.status = "Running" =>
                 \/ Awaits(i, "activity_evaluate_rules")
                 \/ Awaits(i, "activity_write_lead_card")

\* C25 witness: an instance without snapshot row that completed without a
\* card, and one that completed with its card.
NoSnapshotCompleted ==
  \E i, j \in Ids :
    /\ NoSnapshot(instances[i])
    /\ instances[i].steps = PlainSteps
    /\ NoSnapshot(instances[j])
    /\ instances[j].steps = CardSteps

\* C28: the run of the worker has the factor and the batch size of its
\* request, or 120 and 1000 where the request leaves them out, and applies
\* them: every start comes after a pause of 0.02 s divided by the factor, and
\* the rows are taken in batches of the batch size.
RunAppliesRequest ==
  (Parsed /\ run.state # "idle") =>
    /\ run.accelerate = IF "accelerate" \in DOMAIN run.payload
                        THEN run.payload.accelerate ELSE 120
    /\ run.batch_size = IF "batch_size" \in DOMAIN run.payload
                        THEN run.payload.batch_size ELSE 1000
    /\ \A k \in 1..Len(run.todo) : Len(run.todo[k]) <= run.batch_size
    /\ \A k \in 1..Len(run.starts) :
         /\ run.starts[k].batch = ((k - 1) \div run.batch_size) + 1
         /\ run.starts[k].at
              - (IF k = 1 THEN run.began ELSE run.starts[k - 1].at)
              = Max(0, SleepBase \div run.accelerate)

\* C28 witness: a run whose request left out the factor and the batch size
\* has started two events, both from its first batch, 1/6000 s apart.
DefaultsApplied ==
  /\ run.state # "idle"
  /\ DOMAIN run.payload = {"from_ts", "to_ts"}
  /\ run.accelerate = 120
  /\ run.batch_size = 1000
  /\ Len(run.starts) = 2
  /\ run.starts[2].batch = 1
  /\ run.starts[2].at - run.starts[1].at = 166

\* C29: the worker never waits for an instance: whenever it has a row left
\* (and the model has room for an instance), its next start is possible and
\* adds the instance, whatever step the instances started before are at.
StartNeverWaits ==
  (run.state = "running" /\ run.todo # <<>> /\ Len(instances) < MaxInst) =>
    ENABLED (ReplayRow /\ Len(instances') = Len(instances) + 1)

\* C29 witness: the second event of a run has been started while the
\* instance of the first is still running, past its evaluation and waiting
\* for its card write.
StartedWhileFirstRunning ==
  /\ Len(run.starts) = 2
  /\ instances[run.starts[2].instance].steps = <<"STARTED">>
  /\ Awaits(run.starts[1].instance, "activity_write_lead_card")

\* C21 (as claimed): the answer of the status query for an instance that is
\* COMPLETED has the runtime status of the instance and, as its result, the
\* terminal result recorded for the instance, processed and lead_emitted (a
\* query whose poll of the status URL failed aside).
CompletedStatusHasResult ==
  (answer # None /\ answer.op = "status" /\ answer.stored = "Completed"
     /\ answer.response.code # 502) =>
    /\ answer.response.code = 200
    /\ answer.response.runtime_status = "Completed"
    /\ answer.response.result = instances[answer.response.instance_id].result

\* C23 (as claimed): the instance started for an accepted live evaluation
\* request has an event with customer_id, note_id, ts and text, and the id
\* returned for it is the id of that instance, kept for polling.
LiveEventComplete ==
  /\ \A id \in INSTANCE_STATUS_URLS :
       /\ id \in Ids
       /\ {"customer_id", "note_id", "ts", "text"}
            \subseteq DOMAIN instances[id].event
  /\ (answer # None /\ answer.op = "evaluate" /\ answer.code = 200) =>
       answer.instance_id \in INSTANCE_STATUS_URLS

\* C22: a status query changes no state: in the step of a query, for the id
\* of an instance, registered or not, or for an id of no instance, the
\* instance store with every instance's step history, the webapp's registry
\* of ids, the lead cards, the queue and the replay run are what they were.
StatusQueryChangesNothing ==
  [][(answer' # answer /\ answer'.op = "status") =>
       UNCHANGED <<instances, INSTANCE_STATUS_URLS, lead_cards, queue,
                   submitted, run, http_log>>]_vars

\* C22 witness: a query for a registered instance has been answered 200,
\* beside an instance the registry does not have.
StatusAnswered ==
  /\ answer # None
  /\ answer.op = "status"
  /\ answer.response.code = 200
  /\ answer.response.instance_id \in INSTANCE_STATUS_URLS
  /\ \E i \in Ids : i \notin INSTANCE_STATUS_URLS

\* The environment gives no ruleset: no active ruleset from SQL and no local
\* file. It gives no threshold: LEAD_SCORE_THRESHOLD is not set.
RulesetMissing(env) ==
  /\ ~(env.USE_SQL_RULES = "1" /\ env.sql.kind = "row"
        /\ env.sql.ruleset_yaml = "mapping")
  /\ env.yaml_file.kind \in {"missing", "empty"}

ThresholdMissing(env) == env.LEAD_SCORE_THRESHOLD = "unset"

\* C26 (as claimed): when the ruleset or the threshold is missing at startup
\* the app ends in a fatal error and takes no work: it is never loaded, and
\* nothing is evaluated.
MissingConfigIsFatal ==
  (app # None /\ app.state # "cold"
     /\ (RulesetMissing(app.env) \/ ThresholdMissing(app.env))) =>
    /\ app.state = "failed"
    /\ app.evaluated = None

\* C31 (as claimed): in a started worker, whatever load_active_ruleset
\* returned is a (ruleset, version) pair, and no caller fails on its shape:
\* the import does not fail at the unpacking, the evaluation on the imported
\* globals does not fail in score_event, and neither does the evaluation
\* that loads the ruleset itself.
LoadReturnsPair ==
  (app # None /\ app.state # "cold") =>
    LET r == load_active_ruleset(app.env)
    IN /\ ~r.raised => r.shape = "pair"
       /\ app.step # "unpack"
       /\ app.evaluated # None => ~app.evaluated.raised
       /\ app.main_evaluated # None =>
            app.main_evaluated.step # "score_event"

\* A call of the text activity that has returned its hits.
Matched ==
  matching # None /\ matching.output # None /\ ~matching.output.raised

\* What the matcher read of the hits of the model's answer.
ReadHits == [k \in 1..Len(matching.raw) |-> read_hit(matching.raw[k])]

\* A hit of a rule of the catalog, at or above both floors, with evidence of
\* the minimum length.
GoodHit(h) ==
  /\ h.rule_id \in DOMAIN RULESET.text_rules
  /\ h.confidence >= CONFIDENCE_FLOOR
  /\ h.confidence >= GuardFloor
  /\ h.evidence_len >= EVIDENCE_MIN_LEN
  /\ h.evidence_len >= GuardMinLen

\* C32: every hit in the output of the text activity is of a rule of the
\* catalog, has a confidence at or above the matcher's and the guard's
\* floor and evidence whose stripped length is at least the minimum; the
\* output is the hits of the model's answer that pass all of these, each
\* once, in the order of the answer.
TextHitsFiltered ==
  Matched =>
    LET out == matching.output.rule_hits
    IN /\ \A k \in 1..Len(out) : GoodHit(out[k])
       /\ \E f \in [1..Len(out) -> 1..Len(ReadHits)] :
            /\ \A k \in 1..Len(out) : out[k] = ReadHits[f[k]]
            /\ \A j, k \in 1..Len(out) : j < k => f[j] < f[k]
            /\ {f[k] : k \in 1..Len(out)} =
                 {j \in 1..Len(ReadHits) : GoodHit(ReadHits[j])}

\* C32 witness: of three hits the second was dropped, and the first and the
\* third, which differ, are the output in that order.
MiddleHitDropped ==
  /\ Matched
  /\ Len(matching.raw) = 3
  /\ ~GoodHit(ReadHits[2])
  /\ ReadHits[1] # ReadHits[3]
  /\ matching.output.rule_hits = <<ReadHits[1], ReadHits[3]>>

\* C33: the result of a completed instance has processed true, and has
\* lead_emitted true exactly when the card write was invoked for the
\* instance and returned: it was called once, its output is recorded and
\* CARD_WRITTEN is in the history.
ResultTellsCard ==
  \A i \in Ids :
    LET inst == instances[i]
    IN inst.status = "Completed" =>
         /\ inst.result # None
         /\ inst.result.processed
         /\ inst.result.lead_emitted <=>
              /\ inst.calls.write = 1
              /\ inst.card # None
              /\ InList("CARD_WRITTEN", inst.steps)
         /\ ~inst.result.lead_emitted =>
              inst.calls.write = 0 /\ inst.card = None

\* C33 witness: two completed instances, one whose card was written and
\* whose result says so, one without a write and with lead_emitted false.
BothResultsSeen ==
  \E i, j \in Ids :
    /\ instances[i].status = "Completed"
    /\ instances[i].result.lead_emitted
    /\ instances[i].calls.write = 1
    /\ instances[j].status = "Completed"
    /\ ~instances[j].result.lead_emitted
    /\ instances[j].calls.write = 0

\* C34: the customer_id and the note_id of every lead card are those of the
\* event that started the instance which wrote the card, and they are the
\* same at every step on the way: in the features fetched for the instance
\* and in its evaluation result, which is the payload of the write.
CardCarriesOwnEvent ==
  /\ \A k \in 1..Len(lead_cards) :
       LET card == lead_cards[k]
           event == instances[card.instance].event
       IN /\ card.instance \in Ids
          /\ card.customer_id = event.customer_id
          /\ card.note_id = event.note_id
  /\ \A i \in Ids :
       LET inst == instances[i]
       IN /\ inst.features # None =>
               inst.features.customer_id = inst.event.customer_id
          /\ inst.eval_result # None =>
               /\ inst.eval_result.customer_id = inst.event.customer_id
               /\ inst.eval_result.note_id = inst.event.note_id

\* C34 witness: two instances of different customers and notes have each
\* written their card.
TwoCardsTwoCustomers ==
  \E j, k \in 1..Len(lead_cards) :
    /\ lead_cards[j].instance # lead_cards[k].instance
    /\ lead_cards[j].customer_id # lead_cards[k].customer_id
    /\ lead_cards[j].note_id # lead_cards[k].note_id
    /\ instances[lead_cards[j].instance].calls.write = 1
    /\ instances[lead_cards[k].instance].calls.write = 1

====
